---- MODULE Spec2Model ----
(***************************************************************************)
(* Firmware sideload (DFU) transfer engine of note-mcp, src/utils/dfu.go:  *)
(* SideloadFirmwareWithProgressAndLogger and                               *)
(* LoadBinaryToNotecardWithProgressAndLogger as one sequential state       *)
(* machine.  Every device round trip (ctx.Transaction, ctx.SendBytes) and  *)
(* every time.Sleep is one action; the device's answer is chosen with \E.  *)
(* The logger and the progress callback never assign a variable of the     *)
(* transfer and are left out.                                              *)
(***************************************************************************)
EXTENDS Integers, Sequences, FiniteSets, TLC

VARIABLES
    pc,                      \* position in the code
    caller,                  \* entry point used: "Sideload" or "LoadBinary"
    ctxNil,                  \* ctx == nil at SideloadFirmware... entry
    RequestSegmentMaxLen,    \* notecard.RequestSegmentMaxLen (process-wide)
    RequestSegmentDelayMs,   \* notecard.RequestSegmentDelayMs (process-wide)
    originalSegmentMaxLen,   \* dfu.go:71
    originalSegmentDelayMs,  \* dfu.go:72
    filetype,                \* dfu.go:129 / parameter of LoadBinary...
    binaryMax,               \* dfu.go:88 / parameter of LoadBinary...
    bin,                     \* the firmware image, parameter of both functions
    totalLen,                \* len(bin), dfu.go:189
    chunkLen,                \* dfu.go:234
    offset,                  \* dfu.go:283
    lenRemaining,            \* dfu.go:284
    chunkCount,              \* dfu.go:285
    thisLen,                 \* dfu.go:290
    req,                     \* the chunk request map, dfu.go:312
    retry,                   \* dfu.go:387
    i,                       \* dfu.go:461
    connectionLostCount,     \* dfu.go:460
    loadErr,                 \* value returned by LoadBinaryToNotecard...
    sideloadErr,             \* value returned by SideloadFirmware...
    nowSecs,                 \* time.Now().UTC().Unix(), the wall clock in seconds
    beganSecs,               \* dfu.go:282
    elapsedSecs,             \* dfu.go:436
    \* ---- the binary framing of one chunk payload, dfu.go:319-345 ----
    fpc,                     \* position in the framing: "start", "payload", "declared", "written"
    chunkPayload,            \* payload, dfu.go:319
    payloadEncoded,          \* dfu.go:328 and 345
    cobs,                    \* the cobs field of card.binary.put, dfu.go:336
    \* ---- two calls of SideloadFirmware... in one process, dfu.go:71-85 ----
    calls,                   \* per call: its position and its two saved originals
    \* ---- observation of the run (history, never read by the code) ----
    lastReq,                 \* kind of the last device request issued
    lastRsp,                 \* its outcome
    chunks,                  \* <<offset, length>> of each chunk's first dfu.put
    sent,                    \* the request map of the last chunk dfu.put issued
    subTrues,                \* pending:true answers of the current sub-poll
    started,                 \* chunks whose first request has been issued
    acked,                   \* chunks whose dfu.put has been acknowledged
    settled,                 \* acked chunks whose pending sub-poll (if any) ended
    attempts,                \* dfu.put transactions issued for the current chunk
    backoffs,                \* 1000 ms retry sleeps taken for the current chunk
    binPuts,                 \* card.binary.put requests issued for the current chunk
    ioFails,                 \* those of them that failed with a device I/O error
    verified,                \* length field of the accepted binary verification
    subPolls,                \* bare dfu.put status requests of the current sub-poll
    subSleeps,               \* 750 ms sleeps of the current sub-poll
    statusReqs,              \* dfu.status requests issued
    pollSleeps,              \* 1000 ms sleeps of the completion poll
    onlyLosses,              \* every dfu.status so far failed connection-style
    streak,                  \* connection-style failures since any other outcome
    setupReqs,               \* card.binary probes, card.time and initiating dfu.put issued
    entryTunables,           \* the two tunables as they were when the call began
    \* ---- the tool handlers of the MCP server, src/unnamed/part_005 ----
    tpc,                     \* position in the running tool handler
    handler,                 \* the tool handler running: "initialize", "update" or "none"
    notecardContext,         \* part_005:23, "nil" or "open"
    notecardPort,            \* part_005:24, <<>> for nil or <<port>>
    notecardBaud,            \* part_005:25, <<>> for nil or <<baud rate>>
    version,                 \* part_005:488
    force,                   \* part_005:489
    hretry,                  \* part_005:621, retry of the reconnection loop
    reconnectErr,            \* part_005:620, reconnectErr != nil
    toolResult,              \* "none", or the result returned: "error" or "text"
    \* ---- observation of the handlers ----
    openedWith,              \* <<port, baud>> of the last notecard.Open
    connectedWith,           \* <<port, baud>> the initialize tool connected with
    reopens,                 \* notecard.Open calls of the reconnection loop
    sideloadOk               \* the sideload of this update returned nil

codeVars == <<pc, caller, ctxNil, RequestSegmentMaxLen, RequestSegmentDelayMs,
              originalSegmentMaxLen, originalSegmentDelayMs, filetype, binaryMax,
              bin, totalLen, chunkLen, offset, lenRemaining, chunkCount, thisLen,
              req, retry, i, connectionLostCount, loadErr, sideloadErr>>
obsVars == <<lastReq, lastRsp, chunks, sent, subTrues, started, acked, settled, attempts,
             ioFails, backoffs, binPuts, verified, subPolls, subSleeps,
             statusReqs, pollSleeps, onlyLosses, streak, setupReqs>>
frameVars == <<fpc, chunkPayload, payloadEncoded, cobs>>
transferVars == <<codeVars, obsVars, entryTunables, nowSecs, beganSecs, elapsedSecs,
                  frameVars, calls>>
toolVars == <<tpc, handler, notecardContext, notecardPort, notecardBaud, version, force,
              hretry, reconnectErr, toolResult, openedWith, connectedWith, reopens,
              sideloadOk>>
vars == <<transferVars, toolVars>>

(***************************************************************************)
(* Bounds of the model.                                                    *)
(***************************************************************************)
MaxLen == 3          \* firmware images of 0..MaxLen bytes
MaxNum == 2          \* numbers a device response carries: -1..MaxNum
MaxSubPolls == 3     \* pending:true answers a device gives in one sub-poll
MaxClock == 3        \* the wall clock runs from 0 to MaxClock seconds

(***************************************************************************)
(* Program constants.                                                      *)
(***************************************************************************)
UsbSegmentMaxLen == 1024     \* dfu.go:75
UsbSegmentDelayMs == 5       \* dfu.go:76
DefaultChunkLen == 1024      \* dfu.go:274
maxRetries == 3              \* dfu.go:383
PollIterations == 60         \* dfu.go:461
PollHalfway == 30            \* dfu.go:497
LostLimit == 3               \* dfu.go:497

UploadTypeNotecardFirmware == "notecard"
UploadTypeHostFirmware == "host"

(***************************************************************************)
(* Errors.  An error text is modelled by the set of the substrings the     *)
(* code probes for that it contains (note.ErrorContains and                *)
(* strings.Contains are substring tests on err.Error()).                   *)
(***************************************************************************)
ErrCardIo == "{io}"
ErrDFUNotReady == "{dfu-not-ready}"
ErrDFUInProgress == "{dfu-in-progress}"
TxtInProgress == "firmware update is in progress"
TxtConnection == "connection"
TxtTimeout == "timeout"

ErrTexts == { {}, {ErrCardIo}, {ErrDFUNotReady}, {ErrDFUInProgress},
              {TxtInProgress}, {TxtConnection}, {TxtTimeout},
              {ErrCardIo, TxtTimeout} }

ErrorContains(err, marker) == marker \in err

(***************************************************************************)
(* Values returned by the two functions.                                   *)
(***************************************************************************)
Running == [ret |-> "running", msg |-> "", a |-> 0, b |-> 0]
NilErr == [ret |-> "nil", msg |-> "", a |-> 0, b |-> 0]
Panic == [ret |-> "panic", msg |-> "slice bounds out of range", a |-> 0, b |-> 0]
Errorf(msg, a, b) == [ret |-> "error", msg |-> msg, a |-> a, b |-> b]

(***************************************************************************)
(* Response fields.  A JSON field arrives as float64, int, string, bool or *)
(* is absent; byte counts are whole numbers.                               *)
(***************************************************************************)
NumVals == (0 - 1)..MaxNum
StrVals == {ToString(n) : n \in NumVals} \cup {"", "abc"}
Absent == [t |-> "absent", n |-> 0, s |-> ""]
FieldVals == {Absent}
             \cup {[t |-> "float64", n |-> n, s |-> ""] : n \in NumVals}
             \cup {[t |-> "int", n |-> n, s |-> ""] : n \in NumVals}
             \cup {[t |-> "string", n |-> 0, s |-> s] : s \in StrVals}
             \cup {[t |-> "bool", n |-> 0, s |-> "true"]}

\* strconv.Atoi on the strings of the model
Atoi(s) ==
    IF \E n \in NumVals : ToString(n) = s
    THEN [ok |-> TRUE, n |-> CHOOSE n \in NumVals : ToString(n) = s]
    ELSE [ok |-> FALSE, n |-> 0]

\* fmt.Sprintf("%v", v)
Sprint(v) == IF v.t \in {"float64", "int"} THEN ToString(v.n) ELSE v.s

\* dfu.go:99-109 and 255-265: float64, then int, then Atoi of the %v text;
\* the target keeps its zero value when nothing parses
ExtractInt(v) ==
    IF v.t = "absent" THEN 0
    ELSE IF v.t = "float64" THEN v.n
    ELSE IF v.t = "int" THEN v.n
    ELSE IF Sprint(v) # "" /\ Atoi(Sprint(v)).ok THEN Atoi(Sprint(v)).n
    ELSE 0

\* dfu.go:357-366: float64, then Atoi of the %v text
ExtractReceivedLength(v) ==
    IF v.t = "absent" THEN 0
    ELSE IF v.t = "float64" THEN v.n
    ELSE IF Sprint(v) # "" /\ Atoi(Sprint(v)).ok THEN Atoi(Sprint(v)).n
    ELSE 0

Pendings == {"absent", "true", "false", "nonbool"}

\* outcome of one ctx.Transaction / ctx.SendBytes
OkRsp(p, v) == [ok |-> TRUE, err |-> {}, pending |-> p, val |-> v]
ErrRsp(e) == [ok |-> FALSE, err |-> e, pending |-> "absent", val |-> Absent]
NoRsp == OkRsp("absent", Absent)

PlainOutcomes == {NoRsp} \cup {ErrRsp(e) : e \in ErrTexts}
ValueOutcomes == {OkRsp("absent", v) : v \in FieldVals} \cup {ErrRsp(e) : e \in ErrTexts}
PendingOutcomes == {OkRsp(p, Absent) : p \in Pendings} \cup {ErrRsp(e) : e \in ErrTexts}


(***************************************************************************)
(* Decisions of the code, one operator each.                               *)
(***************************************************************************)
\* a chunk that takes all the bytes that remain
ThisLenAllRemaining(rem, clen) == rem

\* dfu.go:290-293
ThisLen(rem, clen) == IF rem > clen THEN clen ELSE rem

\* dfu.go:296: bin[offset : offset+thisLen] panics unless low <= high <= cap
SliceInBounds(off, n, total) == 0 <= off /\ off <= off + n /\ off + n <= total

\* a chunk always cut from the start of the image
ChunkOfFromStart(b, off, n) == SubSeq(b, 1, n)

\* dfu.go:296: chunk := bin[offset : offset+thisLen]
ChunkOf(b, off, n) == SubSeq(b, off + 1, off + n)

\* dfu.go:379: the hex MD5 of the payload, a digest that tells payloads apart
MD5(payload) == <<"md5", payload>>

\* dfu.go:312-316
BaseReq(off, n) == [req |-> "dfu.put", offset |-> off, length |-> n]

\* dfu.go:375-380: the payload travels in the request
InlineReq(r, payload) == ("payload" :> payload) @@ ("status" :> MD5(payload)) @@ r

\* dfu.go:373-380: the payload went through the binary sub-channel
BinaryReq(r, payload) == ("binary" :> TRUE) @@ ("status" :> MD5(payload)) @@ r

\* binary mode chosen for a device that reported no capacity
UsesBinaryFromZero(bmax) == bmax >= 0

\* dfu.go:326
UsesBinary(bmax) == bmax > 0

\* every failed probe treated as fatal
ProbeAlwaysFatal(err) == err = err

\* dfu.go:111: only a device I/O error of the probe is fatal
ProbeFatal(err) == ErrorContains(err, ErrCardIo)

\* a default chunk size of half the size
ChunkLenOrDefaultHalf(n) == IF n = 0 THEN DefaultChunkLen \div 2 ELSE n

\* dfu.go:273-275
ChunkLenOrDefault(n) == IF n = 0 THEN DefaultChunkLen ELSE n

\* a verification that only rejects an over-long report
VerifyMismatchTruncatedAccepted(received, n) == received > n

\* dfu.go:368
VerifyMismatch(received, n) == received # n

\* a retry test that lets the third failure continue
RetryChunkOneMore(err, r) == ErrorContains(err, ErrCardIo) /\ r < maxRetries

\* a retry test that forgets the error class
RetryChunkAnyError(err, r) == r < maxRetries - 1

\* dfu.go:394-398: a device I/O error is retried while attempts are left
RetryChunk(err, r) == ErrorContains(err, ErrCardIo) /\ r < maxRetries - 1

\* the wait taken before every attempt, the first included
AttemptPcAlwaysSleep(r) == "retrysleep"

\* dfu.go:387-392: an attempt other than the first is preceded by the wait
AttemptPc(r) == IF r > 0 THEN "retrysleep" ELSE "dfuput"

\* the remaining count reduced by the negotiated size, not the chunk's
NextRemainingByChunkLen(rem, n) == rem - chunkLen

\* dfu.go:405
NextRemaining(rem, n) == rem - n

\* the offset advanced by one per chunk
NextOffsetByOne(off, n) == off + 1

\* dfu.go:406
NextOffset(off, n) == off + n

\* a pending flag that is never honoured
PendingTrueIgnored(rsp) == FALSE

\* dfu.go:409-410
PendingTrue(rsp) == rsp.pending = "true"

\* a test that takes any boolean pending for the end of the wait
PendingFalseAnyBool(rsp) == rsp.pending \in {"true", "false"}

\* a test that takes everything but pending:true for the end of the wait
PendingFalseUnlessTrue(rsp) == rsp.pending # "true"

\* dfu.go:424-425 and 469-470
PendingFalse(rsp) == rsp.pending = "false"

\* dfu.go:414-416
DfuBusy(err) ==
    \/ ErrorContains(err, ErrDFUNotReady)
    \/ ErrorContains(err, ErrDFUInProgress)
    \/ ErrorContains(err, TxtInProgress)

\* a busy device accepted before the last chunk as well
BusyEndsSubPollAnyTime(err, rem) == DfuBusy(err)

\* dfu.go:417: a busy device ends the sub-poll only after the last chunk
BusyEndsSubPoll(err, rem) == DfuBusy(err) /\ rem = 0

\* dfu.go:483-485
ConnectionStyle(err) ==
    \/ ErrorContains(err, ErrCardIo)
    \/ ErrorContains(err, TxtConnection)
    \/ ErrorContains(err, TxtTimeout)

\* a loss limit that is off by one
AssumeCompletedLate(count, idx) == count > LostLimit \/ idx > PollHalfway

\* dfu.go:497
AssumeCompleted(count, idx) == count >= LostLimit \/ idx > PollHalfway

\* a lost connection treated as a hard failure
LostConnectionFails == Errorf("connection lost", 0, 0)

\* dfu.go:497-506 and 516-520: the restart is assumed, break, return nil
LostConnectionResult == NilErr

\* a restart awaited after every kind of upload
WaitsForRestartAlways(ft) == ft \in {UploadTypeNotecardFirmware, UploadTypeHostFirmware}

\* the difference of the two clock readings, raised to 1 when it is less
ElapsedAtLeastOne(now, began) == IF now - began < 1 THEN 1 ELSE now - began

\* dfu.go:436
Elapsed(now, began) == (now - began) + 1

\* dfu.go:450
WaitsForRestart(ft) == ft = UploadTypeNotecardFirmware

(***************************************************************************)
(* Initial state: one call, not yet entered.                               *)
(***************************************************************************)
\* the images of the model: byte k of an image is k, so that every byte
\* range of an image is told from every other
Images == {[k \in 1..n |-> k] : n \in 0..MaxLen}

\* before dfu.go:312 there is no request map
NoReq == [req |-> "none"]

Tunables0 == { <<0 - 1, 0 - 1>>, <<250, 250>> }

\* the two overlapping calls of SideloadFirmware...
Callers == {1, 2}

InitWith(images) ==
    /\ pc = "entry"
    /\ caller \in {"Sideload", "LoadBinary"}
    /\ ctxNil \in BOOLEAN
    /\ caller = "LoadBinary" => ~ctxNil
    /\ \E t \in Tunables0 :
          /\ RequestSegmentMaxLen = t[1]
          /\ RequestSegmentDelayMs = t[2]
    /\ entryTunables = <<RequestSegmentMaxLen, RequestSegmentDelayMs>>
    /\ originalSegmentMaxLen = 0
    /\ originalSegmentDelayMs = 0
    /\ IF caller = "LoadBinary"
       THEN /\ filetype \in {UploadTypeNotecardFirmware, UploadTypeHostFirmware}
            /\ binaryMax \in {0, MaxNum}
       ELSE /\ filetype = "unset"
            /\ binaryMax = 0
    /\ bin \in images
    /\ totalLen = Len(bin)
    /\ chunkLen = 0
    /\ offset = 0
    /\ lenRemaining = 0
    /\ chunkCount = 0
    /\ thisLen = 0
    /\ req = NoReq
    /\ retry = 0
    /\ i = 0
    /\ connectionLostCount = 0
    /\ loadErr = Running
    /\ sideloadErr = Running
    /\ lastReq = "none"
    /\ lastRsp = NoRsp
    /\ chunks = <<>>
    /\ sent = NoReq
    /\ subTrues = 0
    /\ started = 0
    /\ acked = 0
    /\ settled = 0
    /\ attempts = 0
    /\ backoffs = 0
    /\ binPuts = 0
    /\ ioFails = 0
    /\ verified = Absent
    /\ subPolls = 0
    /\ subSleeps = 0
    /\ statusReqs = 0
    /\ pollSleeps = 0
    /\ onlyLosses = TRUE
    /\ streak = 0
    /\ setupReqs = [probe |-> 0, time |-> 0, initiate |-> 0]
    /\ calls = [c \in Callers |-> [at |-> "save", maxLen |-> 0, delayMs |-> 0]]
    /\ fpc = "start"
    /\ chunkPayload = <<>>
    /\ payloadEncoded = <<>>
    /\ cobs = 0
    /\ nowSecs = 0
    /\ beganSecs = 0
    /\ elapsedSecs = 0
    /\ tpc = "idle"
    /\ handler = "none"
    /\ notecardContext = "nil"
    /\ notecardPort = <<>>
    /\ notecardBaud = <<>>
    /\ version = ""
    /\ force = FALSE
    /\ hretry = 0
    /\ reconnectErr = FALSE
    /\ toolResult = "none"
    /\ openedWith = <<>>
    /\ connectedWith = <<>>
    /\ reopens = 0
    /\ sideloadOk = FALSE

\* one call on an image of the model
Init == InitWith(Images)

tunables == <<RequestSegmentMaxLen, RequestSegmentDelayMs>>
saved == <<originalSegmentMaxLen, originalSegmentDelayMs>>
inputs == <<caller, ctxNil, bin, totalLen, entryTunables, toolVars, nowSecs, frameVars,
            calls>>
params == <<inputs, beganSecs, elapsedSecs>>
loopVars == <<chunkLen, offset, lenRemaining, chunkCount, thisLen, retry>>
pollVars == <<i, connectionLostCount>>
chunkObs == <<chunks, sent, subTrues, started, acked, settled, attempts, ioFails, backoffs,
              binPuts, verified, subPolls, subSleeps>>
pollObs == <<statusReqs, pollSleeps, onlyLosses, streak>>

\* a deferred function that forgets the segment delay
RestoreTunablesMaxLenOnly ==
    /\ RequestSegmentMaxLen' = originalSegmentMaxLen
    /\ RequestSegmentDelayMs' = RequestSegmentDelayMs

\* the deferred function of SideloadFirmware..., dfu.go:79-85
RestoreTunables ==
    /\ RequestSegmentMaxLen' = originalSegmentMaxLen
    /\ RequestSegmentDelayMs' = originalSegmentDelayMs

\* a return statement of SideloadFirmware...: the deferred restore runs
SideloadReturn(e) ==
    /\ sideloadErr' = e
    /\ RestoreTunables
    /\ pc' = "return"

\* a return statement (or panic) of LoadBinaryToNotecard...
LoadReturn(e) ==
    /\ loadErr' = e
    /\ pc' = IF caller = "Sideload" THEN "sideload_finish" ELSE "return"

Request(kind, rsp) ==
    /\ lastReq' = kind
    /\ lastRsp' = rsp

(***************************************************************************)
(* SideloadFirmwareWithProgressAndLogger                                   *)
(***************************************************************************)
\* dfu.go:57-85: nil check, save and override the tunables
SideloadEntry ==
    /\ pc = "entry"
    /\ caller = "Sideload"
    /\ IF ctxNil
       THEN /\ sideloadErr' = Errorf("notecard not initialized", 0, 0)
            /\ pc' = "return"
            /\ UNCHANGED <<tunables, saved>>
       ELSE /\ originalSegmentMaxLen' = RequestSegmentMaxLen
            /\ originalSegmentDelayMs' = RequestSegmentDelayMs
            /\ RequestSegmentMaxLen' = UsbSegmentMaxLen
            /\ RequestSegmentDelayMs' = UsbSegmentDelayMs
            /\ pc' = "probe"
            /\ UNCHANGED sideloadErr
    /\ UNCHANGED <<params, req, filetype, binaryMax, loopVars, pollVars, loadErr, obsVars>>

\* dfu.go:88-129: card.binary probe
ProbeBinary ==
    /\ pc = "probe"
    /\ \E rsp \in ValueOutcomes :
          /\ Request("card.binary probe", rsp)
          /\ setupReqs' = [setupReqs EXCEPT !.probe = @ + 1]
          /\ IF rsp.ok
             THEN /\ binaryMax' = ExtractInt(rsp.val)
                  /\ filetype' = UploadTypeNotecardFirmware
                  /\ pc' = "time"
                  /\ UNCHANGED <<tunables, sideloadErr>>
             ELSE IF ProbeFatal(rsp.err)
             THEN /\ SideloadReturn(Errorf("card I/O error during binary check", 0, 0))
                  /\ UNCHANGED <<binaryMax, filetype>>
             ELSE /\ filetype' = UploadTypeNotecardFirmware
                  /\ pc' = "time"
                  /\ UNCHANGED <<binaryMax, tunables, sideloadErr>>
    /\ UNCHANGED <<params, req, saved, loopVars, pollVars, loadErr, chunkObs, pollObs>>

\* dfu.go:132-160: card.time, then the call of LoadBinaryToNotecard...
SetTime ==
    /\ pc = "time"
    /\ \E rsp \in PlainOutcomes :
          /\ Request("card.time", rsp)
          /\ setupReqs' = [setupReqs EXCEPT !.time = @ + 1]
          /\ IF rsp.ok
             THEN /\ pc' = "load"
                  /\ UNCHANGED <<tunables, sideloadErr>>
             ELSE SideloadReturn(Errorf("failed to set notecard time", 0, 0))
    /\ UNCHANGED <<params, req, saved, filetype, binaryMax, loopVars, pollVars, loadErr,
                   chunkObs, pollObs>>

\* dfu.go:160-175: LoadBinaryToNotecard... has returned into SideloadFirmware...
SideloadFinish ==
    /\ pc = "sideload_finish"
    /\ SideloadReturn(IF loadErr.ret = "nil" THEN NilErr
                      ELSE IF loadErr.ret = "panic" THEN Panic
                      ELSE Errorf("failed to load firmware", 0, 0))
    /\ UNCHANGED <<params, req, saved, filetype, binaryMax, loopVars, pollVars, loadErr, obsVars>>

(***************************************************************************)
(* LoadBinaryToNotecardWithProgressAndLogger                               *)
(***************************************************************************)
\* dfu.go:189-285: metadata, the initiating dfu.put, chunk size negotiation
LoadInitiateWith(outcomes) ==
    /\ \/ pc = "load"
       \/ pc = "entry" /\ caller = "LoadBinary"
    /\ \E rsp \in outcomes :
          /\ Request("dfu.put initiate", rsp)
          /\ setupReqs' = [setupReqs EXCEPT !.initiate = @ + 1]
          /\ IF rsp.ok
             THEN /\ chunkLen' = ChunkLenOrDefault(ExtractInt(rsp.val))
                  /\ beganSecs' = nowSecs
                  /\ offset' = 0
                  /\ lenRemaining' = totalLen
                  /\ chunkCount' = 0
                  /\ pc' = "loop"
                  /\ UNCHANGED loadErr
             ELSE /\ LoadReturn(Errorf("failed to initiate DFU", 0, 0))
                  /\ UNCHANGED <<chunkLen, offset, lenRemaining, chunkCount, beganSecs>>
    /\ UNCHANGED <<inputs, elapsedSecs, req, tunables, saved, filetype, binaryMax, thisLen, retry,
                   pollVars, sideloadErr, chunkObs, pollObs>>

\* dfu.go:245-252: the device answers the initiating dfu.put as it likes
LoadInitiate == LoadInitiateWith(ValueOutcomes)

\* dfu.go:287-326, 374-387: loop test, chunk size, slice, request, mode choice
ChunkPrepare ==
    /\ pc = "loop"
    /\ attempts' = 0
    /\ backoffs' = 0
    /\ binPuts' = 0
    /\ ioFails' = 0
    /\ verified' = Absent
    /\ subPolls' = 0
    /\ subSleeps' = 0
    /\ subTrues' = 0
    /\ IF lenRemaining > 0
       THEN /\ chunkCount' = chunkCount + 1
            /\ thisLen' = ThisLen(lenRemaining, chunkLen)
            /\ IF SliceInBounds(offset, thisLen', totalLen)
               THEN /\ req' = IF UsesBinary(binaryMax)
                              THEN BaseReq(offset, thisLen')
                              ELSE InlineReq(BaseReq(offset, thisLen'),
                                             ChunkOf(bin, offset, thisLen'))
                    /\ pc' = IF UsesBinary(binaryMax) THEN "binput" ELSE AttemptPc(0)
                    /\ retry' = 0
                    /\ UNCHANGED loadErr
               ELSE /\ LoadReturn(Panic)
                    /\ UNCHANGED <<req, retry>>
       ELSE /\ pc' = "summary"
            /\ UNCHANGED <<chunkCount, thisLen, req, retry, loadErr>>
    /\ UNCHANGED <<params, tunables, saved, filetype, binaryMax, chunkLen, offset,
                   lenRemaining, pollVars, sideloadErr, lastReq, lastRsp, chunks, sent,
                   started, acked, settled, pollObs, setupReqs>>

\* dfu.go:328-342: COBS encode, card.binary.put
BinaryPut ==
    /\ pc = "binput"
    /\ \E rsp \in PlainOutcomes :
          /\ Request("card.binary.put", rsp)
          /\ binPuts' = binPuts + 1
          /\ started' = started + 1
          /\ IF rsp.ok
             THEN /\ pc' = "binsend"
                  /\ UNCHANGED loadErr
             ELSE LoadReturn(Errorf("failed to send card.binary.put", 0, 0))
    /\ UNCHANGED <<params, req, tunables, saved, filetype, binaryMax, loopVars, pollVars,
                   sideloadErr, chunks, sent, subTrues, acked, settled, attempts, ioFails, backoffs,
                   verified, subPolls, subSleeps, pollObs, setupReqs>>

\* dfu.go:345-349: raw write of the COBS frame and its delimiter
SendBytes ==
    /\ pc = "binsend"
    /\ \E rsp \in PlainOutcomes :
          /\ Request("SendBytes", rsp)
          /\ IF rsp.ok
             THEN /\ pc' = "binverify"
                  /\ UNCHANGED loadErr
             ELSE LoadReturn(Errorf("failed to send COBS payload", 0, 0))
    /\ UNCHANGED <<params, req, tunables, saved, filetype, binaryMax, loopVars, pollVars,
                   sideloadErr, chunkObs, pollObs, setupReqs>>

\* dfu.go:352-373: card.binary verification of the received length
BinaryVerify ==
    /\ pc = "binverify"
    /\ \E rsp \in ValueOutcomes :
          /\ Request("card.binary verify", rsp)
          /\ IF ~rsp.ok
             THEN /\ LoadReturn(Errorf("failed to verify binary transfer", 0, 0))
                  /\ UNCHANGED <<verified, req>>
             ELSE IF VerifyMismatch(ExtractReceivedLength(rsp.val), thisLen)
             THEN /\ LoadReturn(Errorf("notecard payload verification failed",
                                       thisLen, ExtractReceivedLength(rsp.val)))
                  /\ UNCHANGED <<verified, req>>
             ELSE /\ pc' = AttemptPc(0)
                  /\ req' = BinaryReq(req, ChunkOf(bin, offset, thisLen))
                  /\ verified' = rsp.val
                  /\ UNCHANGED loadErr
    /\ UNCHANGED <<params, tunables, saved, filetype, binaryMax, loopVars, pollVars,
                   sideloadErr, chunks, sent, subTrues, started, acked, settled, attempts,
                   ioFails, backoffs, binPuts, subPolls, subSleeps, pollObs, setupReqs>>

\* dfu.go:387-410: one dfu.put transaction of the retry loop and what follows it
ChunkTransactionWith(outcomes) ==
    /\ pc = "dfuput"
    /\ \E rsp \in outcomes :
          /\ Request("dfu.put chunk", rsp)
          /\ sent' = req
          /\ attempts' = attempts + 1
          /\ ioFails' = IF ~rsp.ok /\ ErrCardIo \in rsp.err THEN ioFails + 1 ELSE ioFails
          /\ chunks' = IF attempts = 0 THEN Append(chunks, <<offset, thisLen>>) ELSE chunks
          /\ started' = IF attempts = 0 /\ binPuts = 0 THEN started + 1 ELSE started
          /\ acked' = IF rsp.ok THEN acked + 1 ELSE acked
          /\ settled' = IF rsp.ok /\ rsp.pending # "true" THEN settled + 1 ELSE settled
          /\ IF ~rsp.ok
             THEN IF RetryChunk(rsp.err, retry)
                  THEN /\ retry' = retry + 1      \* continue, then the loop test
                       /\ IF retry' < maxRetries
                          THEN /\ pc' = AttemptPc(retry')
                               /\ UNCHANGED <<offset, lenRemaining>>
                          ELSE /\ lenRemaining' = NextRemaining(lenRemaining, thisLen)
                               /\ offset' = NextOffset(offset, thisLen)
                               /\ pc' = "loop"
                       /\ UNCHANGED loadErr
                  ELSE /\ LoadReturn(Errorf("failed to send chunk at offset",
                                            offset, maxRetries))
                       /\ UNCHANGED <<offset, lenRemaining, retry>>
             ELSE /\ lenRemaining' = NextRemaining(lenRemaining, thisLen)
                  /\ offset' = NextOffset(offset, thisLen)
                  /\ pc' = IF PendingTrue(rsp) THEN "subpoll" ELSE "loop"
                  /\ retry' = 0      \* break: the loop variable goes out of scope
                  /\ UNCHANGED loadErr
    /\ UNCHANGED <<params, req, tunables, saved, filetype, binaryMax, chunkLen, chunkCount,
                   thisLen, pollVars, sideloadErr, backoffs, binPuts, verified,
                   subPolls, subSleeps, subTrues, pollObs, setupReqs>>

\* dfu.go:392: the device answers the chunk dfu.put as it likes
ChunkTransaction == ChunkTransactionWith(PendingOutcomes)

\* dfu.go:388-390: the wait before a retry
RetrySleep ==
    /\ pc = "retrysleep"
    /\ backoffs' = backoffs + 1
    /\ pc' = "dfuput"
    /\ UNCHANGED <<params, req, tunables, saved, filetype, binaryMax, loopVars, pollVars,
                   loadErr, sideloadErr, lastReq, lastRsp, chunks, sent, subTrues, started, acked,
                   settled, attempts, ioFails, binPuts, verified, subPolls, subSleeps,
                   pollObs, setupReqs>>

\* a count of the sub-poll, which stops counting at MaxSubPolls where the
\* sub-poll itself is left unbounded
Counted(n, saturating) == IF saturating /\ n >= MaxSubPolls THEN n ELSE n + 1

\* dfu.go:411-428: the device's answer rsp to one bare dfu.put status request
SubPollAnswer(rsp, saturating) ==
          /\ Request("dfu.put status", rsp)
          /\ subPolls' = Counted(subPolls, saturating)
          /\ subTrues' = IF rsp.ok /\ rsp.pending = "true"
                          THEN Counted(subTrues, saturating) ELSE subTrues
          /\ IF ~rsp.ok
             THEN IF BusyEndsSubPoll(rsp.err, lenRemaining)
                  THEN /\ pc' = "loop"
                       /\ UNCHANGED loadErr
                  ELSE LoadReturn(Errorf("error checking DFU status", 0, 0))
             ELSE IF PendingFalse(rsp)
             THEN /\ pc' = "loop"
                  /\ UNCHANGED loadErr
             ELSE /\ pc' = "subsleep"
                  /\ UNCHANGED loadErr
          /\ settled' = IF pc' = "loop" THEN settled + 1 ELSE settled
          /\ UNCHANGED <<params, req, tunables, saved, filetype, binaryMax, loopVars,
                         pollVars, sideloadErr, chunks, sent, started, acked, attempts,
                         ioFails, backoffs, binPuts, verified, subSleeps, pollObs,
                         setupReqs>>

\* dfu.go:411-428: one status request of the pending sub-poll, answered by a
\* device that says pending:false or fails after at most MaxSubPolls answers
SubPoll ==
    /\ pc = "subpoll"
    /\ \E rsp \in PendingOutcomes :
          /\ rsp.ok /\ ~PendingFalse(rsp) => subPolls < MaxSubPolls
          /\ SubPollAnswer(rsp, FALSE)

\* dfu.go:429: the wait between two status requests
SubPollWait(saturating) ==
    /\ pc = "subsleep"
    /\ subSleeps' = Counted(subSleeps, saturating)
    /\ pc' = "subpoll"
    /\ UNCHANGED <<params, req, tunables, saved, filetype, binaryMax, loopVars, pollVars,
                   loadErr, sideloadErr, lastReq, lastRsp, chunks, sent, subTrues, started, acked,
                   settled, attempts, ioFails, backoffs, binPuts, verified, subPolls,
                   pollObs, setupReqs>>

SubPollSleep == SubPollWait(FALSE)

\* dfu.go:436-461: summary, then the choice to wait for the restart
Summary ==
    /\ pc = "summary"
    /\ elapsedSecs' = Elapsed(nowSecs, beganSecs)
    /\ IF WaitsForRestart(filetype)
       THEN /\ i' = 0
            /\ connectionLostCount' = 0
            /\ pc' = "poll"
            /\ UNCHANGED loadErr
       ELSE /\ LoadReturn(NilErr)
            /\ UNCHANGED pollVars
    /\ UNCHANGED <<inputs, beganSecs, req, tunables, saved, filetype, binaryMax, loopVars,
                   sideloadErr, obsVars>>

\* dfu.go:462-508: one dfu.status request of the completion poll
StatusPollWith(outcomes) ==
    /\ pc = "poll"
    /\ \E rsp \in outcomes :
          /\ Request("dfu.status", rsp)
          /\ statusReqs' = statusReqs + 1
          /\ streak' = IF ~rsp.ok /\ rsp.err \cap {ErrCardIo, TxtConnection, TxtTimeout} # {}
                        THEN streak + 1 ELSE 0
          /\ onlyLosses' = (onlyLosses /\ ~rsp.ok
                             /\ rsp.err \cap {ErrCardIo, TxtConnection, TxtTimeout} # {})
          /\ IF rsp.ok
             THEN /\ connectionLostCount' = 0
                  /\ IF PendingFalse(rsp)
                     THEN LoadReturn(NilErr)
                     ELSE /\ pc' = "pollsleep"
                          /\ UNCHANGED loadErr
             ELSE IF ConnectionStyle(rsp.err)
             THEN /\ connectionLostCount' = connectionLostCount + 1
                  /\ IF AssumeCompleted(connectionLostCount', i)
                     THEN LoadReturn(LostConnectionResult)
                     ELSE /\ pc' = "pollsleep"
                          /\ UNCHANGED loadErr
             ELSE /\ pc' = "pollsleep"
                  /\ UNCHANGED <<connectionLostCount, loadErr>>
    /\ UNCHANGED <<params, req, tunables, saved, filetype, binaryMax, loopVars, i,
                   sideloadErr, chunkObs, pollSleeps, setupReqs>>

\* dfu.go:462-465: the device answers dfu.status as it likes
StatusPoll == StatusPollWith(PendingOutcomes)

\* dfu.go:509-513 and 461: the wait, i++, and the loop test
PollSleep ==
    /\ pc = "pollsleep"
    /\ pollSleeps' = pollSleeps + 1
    /\ i' = i + 1
    /\ IF i' < PollIterations
       THEN /\ pc' = "poll"
            /\ UNCHANGED loadErr
       ELSE LoadReturn(NilErr)
    /\ UNCHANGED <<params, req, tunables, saved, filetype, binaryMax, loopVars,
                   connectionLostCount, sideloadErr, lastReq, lastRsp, chunkObs,
                   statusReqs, onlyLosses, streak, setupReqs>>

Next ==
    \/ SideloadEntry
    \/ ProbeBinary
    \/ SetTime
    \/ SideloadFinish
    \/ LoadInitiate
    \/ ChunkPrepare
    \/ BinaryPut
    \/ SendBytes
    \/ BinaryVerify
    \/ ChunkTransaction
    \/ RetrySleep
    \/ SubPoll
    \/ SubPollSleep
    \/ Summary
    \/ StatusPoll
    \/ PollSleep

Spec == Init /\ [][Next]_vars

(***************************************************************************)
(* LoadBinaryToNotecardWithProgressAndLogger called with host firmware,    *)
(* with a device free to answer the sub-poll as it likes for as long as it *)
(* likes.  The program is sequential and always takes its next step, hence *)
(* the weak fairness of the next-state action.                             *)
(***************************************************************************)
InitLive ==
    /\ Init
    /\ caller = "LoadBinary"
    /\ filetype = UploadTypeHostFirmware

\* dfu.go:411-428: one status request of the sub-poll, any answer at any time
SubPollUnbounded ==
    /\ pc = "subpoll"
    /\ \E rsp \in PendingOutcomes : SubPollAnswer(rsp, TRUE)

\* dfu.go:429: the wait between two status requests
SubPollSleepUnbounded == SubPollWait(TRUE)

NextLive ==
    \/ LoadInitiate
    \/ ChunkPrepare
    \/ BinaryPut
    \/ SendBytes
    \/ BinaryVerify
    \/ ChunkTransaction
    \/ RetrySleep
    \/ SubPollUnbounded
    \/ SubPollSleepUnbounded
    \/ Summary

SpecLive == InitLive /\ [][NextLive]_vars /\ WF_vars(NextLive)

(***************************************************************************)
(* The tool handlers of src/unnamed/part_005 around the sideload:          *)
(* HandleNotecardInitializeTool, initializeNotecard, closeNotecard and     *)
(* HandleNotecardUpdateFirmwareTool.  The sideload is one step here, with   *)
(* either of the two results the transfer above can give.                  *)
(***************************************************************************)
\* part_005:34: notecard.Defaults()
DefaultPort == "default port"
DefaultBaud == 9600

\* part_005:320-321: what a user gives to the initialize tool; "" and 0
\* stand for "not provided"
UserPort == "COM7"
UserBaud == 115200
PortArgs == {"", UserPort}
BaudArgs == {0, UserBaud}

\* part_005:621 and 630
Reconnects == 5
LastReconnect == 4

\* part_005:24-25: a *string or *int is nil or points to a value
NilPtr == <<>>
Ptr(v) == <<v>>
Deref(p) == p[1]

\* part_005:37-39
OpenPort == IF notecardPort # NilPtr THEN Deref(notecardPort) ELSE DefaultPort

\* part_005:42-44
OpenBaud == IF notecardBaud # NilPtr THEN Deref(notecardBaud) ELSE DefaultBaud

\* part_005:62-79: what the validating card.version request comes back with
ValidationOutcomes == {"version", "error", "err field", "no version"}

\* part_005:654-681: what the verifying card.version request comes back with
VerifyOutcomes == {"version", "error", "no version"}

\* a failed reconnection reported as a failed update
ReconnectFailedIsError == "error"

\* part_005:636-640: NewToolResultText after the fifth failed reconnection
ReconnectFailedResult == "text"

\* part_005:658, 677 and 682: NewToolResultText whatever the verification gave
VerifyResult(outcome) == "text"

\* a return of initializeNotecard into the handler that called it:
\* part_005:331-338 for the initialize tool, part_005:625-640 for the
\* reconnection loop of the update tool
InitializeReturn(failed) ==
    IF handler = "initialize"
    THEN /\ toolResult' = IF failed THEN "error" ELSE "text"
         /\ tpc' = "idle"
         /\ handler' = "none"
         /\ UNCHANGED <<hretry, reconnectErr>>
    ELSE /\ reconnectErr' = failed
         /\ IF ~failed
            THEN /\ tpc' = "verify"
                 /\ UNCHANGED <<hretry, toolResult>>
            ELSE IF hretry < LastReconnect
            THEN /\ tpc' = "resleep"
                 /\ UNCHANGED <<hretry, toolResult>>
            ELSE /\ hretry' = hretry + 1
                 /\ toolResult' = ReconnectFailedResult
                 /\ tpc' = "done"
         /\ UNCHANGED handler

\* part_005:319-331: the initialize tool stores the port and baud rate given
HandleNotecardInitializeTool ==
    /\ tpc = "idle"
    /\ \E port \in PortArgs, baud \in BaudArgs :
          /\ notecardPort' = IF port # "" THEN Ptr(port) ELSE notecardPort
          /\ notecardBaud' = IF baud # 0 THEN Ptr(baud) ELSE notecardBaud
    /\ handler' = "initialize"
    /\ toolResult' = "none"
    /\ tpc' = "open"
    /\ UNCHANGED <<notecardContext, version, force, hretry, reconnectErr, openedWith,
                   connectedWith, reopens, sideloadOk, transferVars>>

\* part_005:28-50: initializeNotecard up to notecard.Open
InitializeOpen ==
    /\ tpc = "open"
    /\ IF notecardContext # "nil"
       THEN /\ InitializeReturn(FALSE)
            /\ UNCHANGED <<openedWith, reopens>>
       ELSE /\ openedWith' = <<OpenPort, OpenBaud>>
            /\ reopens' = IF handler = "update" THEN reopens + 1 ELSE reopens
            /\ \E opened \in BOOLEAN :
                  IF opened
                  THEN /\ tpc' = "validate"
                       /\ UNCHANGED <<handler, toolResult, hretry, reconnectErr>>
                  ELSE InitializeReturn(TRUE)
    /\ UNCHANGED <<notecardContext, notecardPort, notecardBaud, version, force,
                   connectedWith, sideloadOk, transferVars>>

\* part_005:52-85: the validating card.version request and the deferred cleanup
InitializeValidate ==
    /\ tpc = "validate"
    /\ \E outcome \in ValidationOutcomes :
          IF outcome = "version"
          THEN /\ notecardContext' = "open"
               /\ connectedWith' = IF handler = "initialize" THEN openedWith
                                   ELSE connectedWith
               /\ InitializeReturn(FALSE)
               /\ UNCHANGED <<notecardPort, notecardBaud>>
          ELSE /\ notecardContext' = "nil"
               /\ notecardPort' = NilPtr
               /\ notecardBaud' = NilPtr
               /\ InitializeReturn(TRUE)
               /\ UNCHANGED connectedWith
    /\ UNCHANGED <<version, force, openedWith, reopens, sideloadOk, transferVars>>

\* a return statement of the update tool handler
ToolReturn(result) ==
    /\ toolResult' = result
    /\ tpc' = "done"

\* part_005:475-516: the checks of the update tool before any fetch
UpdateEntry ==
    /\ tpc = "idle"
    /\ handler' = "update"
    /\ IF notecardContext = "nil"
       THEN /\ ToolReturn("error")
            /\ UNCHANGED <<version, force>>
       ELSE \E modelKnown \in BOOLEAN, v \in {"", "v1"}, f \in BOOLEAN :
               /\ version' = v
               /\ force' = f
               /\ IF ~modelKnown
                  THEN ToolReturn("error")
                  ELSE /\ toolResult' = "none"
                       /\ tpc' = IF v = "" THEN "latest"
                                 ELSE IF ~f THEN "current" ELSE "download"
    /\ UNCHANGED <<notecardContext, notecardPort, notecardBaud, hretry, reconnectErr,
                   openedWith, connectedWith, reopens, sideloadOk, transferVars>>

\* part_005:518-531: no version given, the latest one is fetched
FetchLatest ==
    /\ tpc = "latest"
    /\ \E fetched \in BOOLEAN :
          IF fetched
          THEN /\ version' = "v1"
               /\ tpc' = IF ~force THEN "current" ELSE "download"
               /\ UNCHANGED toolResult
          ELSE /\ ToolReturn("error")
               /\ UNCHANGED version
    /\ UNCHANGED <<handler, notecardContext, notecardPort, notecardBaud, force, hretry,
                   reconnectErr, openedWith, connectedWith, reopens, sideloadOk,
                   transferVars>>

\* part_005:534-558: card.version before the update, unless forced
CheckCurrent ==
    /\ tpc = "current"
    /\ \E outcome \in {"error", "same version", "other version", "no version"} :
          IF outcome = "error" THEN ToolReturn("error")
          ELSE IF outcome = "same version" THEN ToolReturn("text")
          ELSE /\ tpc' = "download"
               /\ UNCHANGED toolResult
    /\ UNCHANGED <<handler, notecardContext, notecardPort, notecardBaud, version, force,
                   hretry, reconnectErr, openedWith, connectedWith, reopens, sideloadOk,
                   transferVars>>

\* part_005:562-577: the firmware download
Download ==
    /\ tpc = "download"
    /\ \E downloaded \in BOOLEAN :
          IF downloaded
          THEN /\ tpc' = "sideload"
               /\ UNCHANGED toolResult
          ELSE ToolReturn("error")
    /\ UNCHANGED <<handler, notecardContext, notecardPort, notecardBaud, version, force,
                   hretry, reconnectErr, openedWith, connectedWith, reopens, sideloadOk,
                   transferVars>>

\* part_005:597-604: the call of SideloadFirmwareWithProgressAndLogger
ToolSideload ==
    /\ tpc = "sideload"
    /\ \E err \in {NilErr, Errorf("failed to load firmware", 0, 0)} :
          IF err = NilErr
          THEN /\ sideloadOk' = TRUE
               /\ tpc' = "close"
               /\ UNCHANGED toolResult
          ELSE /\ ToolReturn("error")
               /\ UNCHANGED sideloadOk
    /\ UNCHANGED <<handler, notecardContext, notecardPort, notecardBaud, version, force,
                   hretry, reconnectErr, openedWith, connectedWith, reopens, transferVars>>

\* part_005:606-621 with closeNotecard, part_005:89-96, and the 3 s wait
CloseAndWait ==
    /\ tpc = "close"
    /\ IF notecardContext # "nil"
       THEN /\ notecardContext' = "nil"
            /\ notecardPort' = NilPtr
            /\ notecardBaud' = NilPtr
       ELSE UNCHANGED <<notecardContext, notecardPort, notecardBaud>>
    /\ hretry' = 0
    /\ reconnectErr' = FALSE
    /\ tpc' = "open"
    /\ UNCHANGED <<handler, version, force, toolResult, openedWith, connectedWith,
                   reopens, sideloadOk, transferVars>>

\* part_005:630-633 and 621: the 2 s wait, retry++, the next attempt
ReconnectSleep ==
    /\ tpc = "resleep"
    /\ hretry' = hretry + 1
    /\ tpc' = "open"
    /\ UNCHANGED <<handler, notecardContext, notecardPort, notecardBaud, version, force,
                   reconnectErr, toolResult, openedWith, connectedWith, reopens,
                   sideloadOk, transferVars>>

\* part_005:643-682: card.version after the reconnection
VerifyVersion ==
    /\ tpc = "verify"
    /\ \E outcome \in VerifyOutcomes : ToolReturn(VerifyResult(outcome))
    /\ UNCHANGED <<handler, notecardContext, notecardPort, notecardBaud, version, force,
                   hretry, reconnectErr, openedWith, connectedWith, reopens, sideloadOk,
                   transferVars>>

\* the server has just started and no transfer is running
InitTool ==
    /\ Init
    /\ caller = "Sideload"
    /\ ~ctxNil
    /\ bin = <<>>
    /\ RequestSegmentMaxLen = 250

NextTool ==
    \/ HandleNotecardInitializeTool
    \/ InitializeOpen
    \/ InitializeValidate
    \/ UpdateEntry
    \/ FetchLatest
    \/ CheckCurrent
    \/ Download
    \/ ToolSideload
    \/ CloseAndWait
    \/ ReconnectSleep
    \/ VerifyVersion

SpecTool == InitTool /\ [][NextTool]_vars


(***************************************************************************)
(* LoadBinaryToNotecardWithProgressAndLogger on a 3500-byte image in       *)
(* non-binary mode with a device that fails no request and names no chunk  *)
(* size, so that the default of 1024 bytes is used.                        *)
(***************************************************************************)
\* the responses of a device that fails no request
FaultFree(outcomes) == {rsp \in outcomes : rsp.ok}

\* the successful responses that carry no chunk size
NoLength(outcomes) == {rsp \in FaultFree(outcomes) : ExtractInt(rsp.val) = 0}

InitExample ==
    /\ InitWith({[k \in 1..3500 |-> k]})
    /\ caller = "LoadBinary"
    /\ binaryMax = 0
    /\ RequestSegmentMaxLen = 250

LoadInitiateExample == LoadInitiateWith(NoLength(ValueOutcomes))

ChunkTransactionExample == ChunkTransactionWith(FaultFree(PendingOutcomes))

\* dfu.go:411-428: one status request of the sub-poll, never failing
SubPollExample ==
    /\ pc = "subpoll"
    /\ \E rsp \in FaultFree(PendingOutcomes) :
          /\ ~PendingFalse(rsp) => subPolls < MaxSubPolls
          /\ SubPollAnswer(rsp, FALSE)

StatusPollExample == StatusPollWith(FaultFree(PendingOutcomes))

NextExample ==
    \/ LoadInitiateExample
    \/ ChunkPrepare
    \/ ChunkTransactionExample
    \/ SubPollExample
    \/ SubPollSleep
    \/ Summary
    \/ StatusPollExample
    \/ PollSleep

SpecExample == InitExample /\ [][NextExample]_vars

(***************************************************************************)
(* LoadBinaryToNotecardWithProgressAndLogger with host firmware while the   *)
(* wall clock runs: the clock never goes backwards and may advance between *)
(* any two steps of the call.                                              *)
(***************************************************************************)
InitClock ==
    /\ InitWith({<<>>, <<1>>})
    /\ caller = "LoadBinary"
    /\ filetype = UploadTypeHostFirmware
    /\ binaryMax = 0
    /\ RequestSegmentMaxLen = 250

\* the wall clock moves on by one second
Tick ==
    /\ nowSecs < MaxClock
    /\ nowSecs' = nowSecs + 1
    /\ UNCHANGED <<codeVars, obsVars, entryTunables, beganSecs, elapsedSecs, toolVars,
                   frameVars, calls>>

NextClock ==
    \/ Tick
    \/ LoadInitiate
    \/ ChunkPrepare
    \/ ChunkTransaction
    \/ RetrySleep
    \/ SubPoll
    \/ SubPollSleep
    \/ Summary

SpecClock == InitClock /\ [][NextClock]_vars

\* ---------------------------------------------------------------------
\* The binary framing of one chunk payload, dfu.go:326-346.  The encoder
\* notecard.CobsEncode is the note-go library's; it is modelled after the
\* Chunk Encoder of the specification: consistent-overhead byte stuffing of
\* byte values 0..255 in blocks of at most 254 data bytes, every output byte
\* combined with the delimiter by exclusive or.
\* ---------------------------------------------------------------------
MaxPayload == 3

\* dfu.go:328: byte('\n')
Delimiter == 10

ByteSamples == {0, Delimiter, 65, 255}

RECURSIVE Xor(_, _)
Xor(a, b) ==
    IF a = 0 /\ b = 0 THEN 0
    ELSE (((a % 2) + (b % 2)) % 2) + 2 * Xor(a \div 2, b \div 2)

\* one block per step: the code byte counts the data bytes before the next
\* zero byte, or is 255 for a full block of 254 data bytes; a final code byte
\* closes the encoding after a zero byte or a full block
RECURSIVE CobsBlocks(_, _, _)
CobsBlocks(input, k, xor) ==
    IF k > Len(input)
    THEN <<Xor(1, xor)>>
    ELSE LET zeros == {j \in k..Len(input) : input[j] = 0}
             stop  == IF zeros = {} THEN Len(input) + 1
                      ELSE CHOOSE m \in zeros : \A j \in zeros : m <= j
             run   == IF stop - k < 254 THEN stop - k ELSE 254
             block == <<Xor(run + 1, xor)>>
                          \o [j \in 1..run |-> Xor(input[k + j - 1], xor)]
         IN  IF run = 254 THEN block \o CobsBlocks(input, k + 254, xor)
             ELSE IF stop <= Len(input) THEN block \o CobsBlocks(input, k + run + 1, xor)
             ELSE block

CobsEncode(input, xor) == CobsBlocks(input, 1, xor)

\* dfu.go:336: "cobs": len(payloadEncoded), taken before the delimiter is appended
DeclaredCobsWithDelimiter(encoded) == Len(encoded) + 1

DeclaredCobs(encoded) == Len(encoded)

RECURSIVE SeqsUpTo(_, _)
SeqsUpTo(S, n) ==
    IF n = 0 THEN {<<>>}
    ELSE LET shorter == SeqsUpTo(S, n - 1)
         IN  shorter \cup {Append(q, b) : q \in shorter, b \in S}

\* payloads that fill a block of 254 data bytes, with and without the delimiter
LongPayloads ==
    {[k \in 1..n |-> IF k % 7 = 0 THEN d ELSE 65] : n \in {253, 254, 255, 300},
                                                     d \in {Delimiter, 66}}

\* dfu.go:290-296: a chunk has at least one byte
Payloads == (SeqsUpTo(ByteSamples, MaxPayload) \ {<<>>}) \cup LongPayloads

InitFrame ==
    /\ InitWith({<<>>}) /\ caller = "LoadBinary" /\ binaryMax = 0
    /\ RequestSegmentMaxLen = 250 /\ filetype = UploadTypeHostFirmware
    /\ fpc = "start"

\* dfu.go:319: payload := bin[offset : offset+thisLen]
ChunkPayload ==
    /\ fpc = "start"
    /\ \E p \in Payloads : chunkPayload' = p
    /\ fpc' = "payload"
    /\ UNCHANGED <<codeVars, obsVars, entryTunables, nowSecs, beganSecs, elapsedSecs,
                   toolVars, calls, payloadEncoded, cobs>>

\* dfu.go:328-336: encode the payload and declare the encoded length
BinaryPutFrame ==
    /\ fpc = "payload"
    /\ payloadEncoded' = CobsEncode(chunkPayload, Delimiter)
    /\ cobs' = DeclaredCobs(payloadEncoded')
    /\ fpc' = "declared"
    /\ UNCHANGED <<codeVars, obsVars, entryTunables, nowSecs, beganSecs, elapsedSecs,
                   toolVars, calls, chunkPayload>>

\* dfu.go:345-346: append the delimiter and write the bytes
SendFrame ==
    /\ fpc = "declared"
    /\ payloadEncoded' = Append(payloadEncoded, Delimiter)
    /\ fpc' = "written"
    /\ UNCHANGED <<codeVars, obsVars, entryTunables, nowSecs, beganSecs, elapsedSecs,
                   toolVars, calls, chunkPayload, cobs>>

NextFrame == ChunkPayload \/ BinaryPutFrame \/ SendFrame

SpecFrame == InitFrame /\ [][NextFrame]_vars

\* ---------------------------------------------------------------------
\* Two calls of SideloadFirmwareWithProgressAndLogger that overlap in one
\* process.  The tunables are package variables of note-go, read and written
\* without a lock (dfu.go:71-81); each statement of a call is one step and the
\* steps of the two calls interleave.  The transfer between the override and
\* the return (dfu.go:87-175) leaves the tunables alone and is one step.
\* ---------------------------------------------------------------------
InitTwoCalls ==
    /\ InitWith({<<>>}) /\ caller = "Sideload" /\ ~ctxNil

othersOfCalls == <<pc, caller, ctxNil, saved, filetype, binaryMax, bin, totalLen,
                   loopVars, req, pollVars, loadErr, sideloadErr, obsVars, entryTunables,
                   nowSecs, beganSecs, elapsedSecs, frameVars, toolVars>>

CallStep(c, from, to) ==
    /\ calls[c].at = from
    /\ calls' = [calls EXCEPT ![c].at = to]

\* dfu.go:71: originalSegmentMaxLen := notecard.RequestSegmentMaxLen
CallSaveMaxLen(c) ==
    /\ calls[c].at = "save"
    /\ calls' = [calls EXCEPT ![c].at = "saveDelay", ![c].maxLen = RequestSegmentMaxLen]
    /\ UNCHANGED <<tunables, othersOfCalls>>

\* dfu.go:72: originalSegmentDelayMs := notecard.RequestSegmentDelayMs
CallSaveDelayMs(c) ==
    /\ calls[c].at = "saveDelay"
    /\ calls' = [calls EXCEPT ![c].at = "set", ![c].delayMs = RequestSegmentDelayMs]
    /\ UNCHANGED <<tunables, othersOfCalls>>

\* dfu.go:75: notecard.RequestSegmentMaxLen = 1024
CallSetMaxLen(c) ==
    /\ CallStep(c, "set", "setDelay")
    /\ RequestSegmentMaxLen' = UsbSegmentMaxLen
    /\ UNCHANGED <<RequestSegmentDelayMs, othersOfCalls>>

\* dfu.go:76: notecard.RequestSegmentDelayMs = 5
CallSetDelayMs(c) ==
    /\ CallStep(c, "setDelay", "transfer")
    /\ RequestSegmentDelayMs' = UsbSegmentDelayMs
    /\ UNCHANGED <<RequestSegmentMaxLen, othersOfCalls>>

\* dfu.go:87-175: the probe, the transfer and the return statement
CallTransfer(c) ==
    /\ CallStep(c, "transfer", "restore")
    /\ UNCHANGED <<tunables, othersOfCalls>>

\* dfu.go:80: notecard.RequestSegmentMaxLen = originalSegmentMaxLen
CallRestoreMaxLen(c) ==
    /\ CallStep(c, "restore", "restoreDelay")
    /\ RequestSegmentMaxLen' = calls[c].maxLen
    /\ UNCHANGED <<RequestSegmentDelayMs, othersOfCalls>>

\* dfu.go:81: notecard.RequestSegmentDelayMs = originalSegmentDelayMs
CallRestoreDelayMs(c) ==
    /\ CallStep(c, "restoreDelay", "returned")
    /\ RequestSegmentDelayMs' = calls[c].delayMs
    /\ UNCHANGED <<RequestSegmentMaxLen, othersOfCalls>>

NextTwoCalls ==
    \E c \in Callers :
        \/ CallSaveMaxLen(c)
        \/ CallSaveDelayMs(c)
        \/ CallSetMaxLen(c)
        \/ CallSetDelayMs(c)
        \/ CallTransfer(c)
        \/ CallRestoreMaxLen(c)
        \/ CallRestoreDelayMs(c)

SpecTwoCalls == InitTwoCalls /\ [][NextTwoCalls]_vars

TypeOK ==
    /\ pc \in {"entry", "probe", "time", "load", "loop", "binput", "binsend",
               "binverify", "dfuput", "retrysleep", "subpoll", "subsleep",
               "summary", "poll", "pollsleep", "sideload_finish", "return"}
    /\ retry \in 0..(maxRetries - 1)
    /\ i \in 0..PollIterations
    /\ connectionLostCount \in 0..LostLimit


(***************************************************************************)
(* Properties                                                              *)
(***************************************************************************)
Min(a, b) == IF a < b THEN a ELSE b
CeilDiv(a, b) == (a + b - 1) \div b

\* the call of LoadBinaryToNotecard... is over
Returned == pc \in {"sideload_finish", "return"}
\* the chunk loop has been left through its loop test
LoopDone == pc \in {"summary", "poll", "pollsleep"} \/ loadErr = NilErr
\* dfu.go:273-285 have run: the session's counters exist
SessionExists == chunkLen # 0
\* the chunk the loop is working on has had its dfu.put issued
CurrentChunk == chunks[Len(chunks)]

\* C1: with a negotiated chunk size C >= 1 the (offset, thisLen) pairs of the
\* chunk dfu.put requests partition [0, L): the first offset is 0, each next
\* offset is the previous offset plus the previous length, every length is
\* min(remaining, C), and once the loop has ended there are ceil(L/C) chunks
\* and the final offset is L.
C1_ChunksPartitionImage ==
    chunkLen >= 1 =>
        /\ \A k \in 1..Len(chunks) :
              /\ chunks[k][1] = IF k = 1 THEN 0 ELSE chunks[k-1][1] + chunks[k-1][2]
              /\ chunks[k][2] = Min(totalLen - chunks[k][1], chunkLen)
              /\ chunks[k][2] >= 1
        /\ LoopDone =>
              /\ Len(chunks) = CeilDiv(totalLen, chunkLen)
              /\ offset = totalLen
              /\ Len(chunks) > 0 => CurrentChunk[1] + CurrentChunk[2] = totalLen

C1_Witness ==
    /\ LoopDone
    /\ chunkLen = 2
    /\ chunks = <<(<<0, 2>>), (<<2, 1>>)>>

StaysOrReturnsNil ==
    pc \in {"summary", "poll", "pollsleep"} =>
        \/ loadErr' = NilErr /\ Returned'
        \/ loadErr' = Running /\ pc' \in {"poll", "pollsleep"}

\* C2: once the chunk loop has finished no dfu.status outcome becomes an error:
\* every step from there either keeps the call running inside the completion
\* poll or returns nil, and the poll issues at most 60 requests.
C2_PollNeverFails ==
    /\ [](statusReqs <= PollIterations)
    /\ [](pc = "poll" => i < PollIterations)
    /\ [][StaysOrReturnsNil]_vars

C2_Witness ==
    /\ loadErr = NilErr
    /\ statusReqs = PollIterations
    /\ lastRsp = ErrRsp({})

\* C3: when the first three dfu.status requests each fail with a
\* connection-style error, the third ends the poll: exactly 3 requests are
\* issued and the call returns nil.
C3_ThreeLossesComplete ==
    /\ onlyLosses => statusReqs <= LostLimit
    /\ onlyLosses /\ statusReqs = LostLimit => loadErr = NilErr /\ Returned
    /\ onlyLosses /\ statusReqs < LostLimit /\ statusReqs > 0 =>
          loadErr = Running /\ pc \in {"pollsleep", "poll"}

C3_Witness ==
    /\ onlyLosses
    /\ statusReqs = LostLimit
    /\ loadErr = NilErr
    /\ lastRsp = ErrRsp({TxtConnection})

\* C4: when every dfu.put attempt of a chunk fails with a device I/O error,
\* exactly 3 attempts are made, the call then returns an error naming the
\* chunk's offset, offset and remaining are those of that chunk, and no later
\* chunk is started.
C4_ThreeIoFailuresAbort ==
    /\ attempts <= maxRetries
    /\ attempts > 0 /\ ioFails = attempts /\ attempts < maxRetries =>
          loadErr = Running /\ pc \in {"retrysleep", "dfuput"}
    /\ ioFails = maxRetries =>
          /\ attempts = maxRetries
          /\ Returned
          /\ loadErr = Errorf("failed to send chunk at offset", CurrentChunk[1], maxRetries)
          /\ offset = CurrentChunk[1]
          /\ lenRemaining = totalLen - CurrentChunk[1]
          /\ started = Len(chunks)
          /\ lastReq = "dfu.put chunk"

C4_Witness ==
    /\ ioFails = maxRetries
    /\ Returned
    /\ Len(chunks) = 2
    /\ lenRemaining = 2

\* C5: when a chunk's dfu.put fails with a device I/O error on attempts 1 and
\* 2 and succeeds on attempt 3, the chunk is accepted on that attempt, the
\* 1000 ms wait was taken exactly twice (one before each retry, none before
\* attempt 1), and the transfer goes on.
C5_ThirdAttemptSucceeds ==
    /\ pc = "dfuput" => backoffs = attempts
    /\ pc = "retrysleep" => backoffs = attempts - 1 /\ attempts >= 1
    /\ ioFails = 2 /\ attempts = maxRetries =>
          /\ backoffs = 2
          /\ lastReq = "dfu.put chunk" /\ lastRsp.ok =>
                /\ acked = Len(chunks)
                /\ offset = CurrentChunk[1] + CurrentChunk[2]
                /\ loadErr = Running
                /\ pc = IF lastRsp.pending = "true" THEN "subpoll" ELSE "loop"

C5_Witness ==
    /\ ioFails = 2
    /\ attempts = maxRetries
    /\ backoffs = 2
    /\ lastReq = "dfu.put chunk"
    /\ lastRsp.ok
    /\ pc = "loop"
    /\ lenRemaining > 0

\* C6: a chunk dfu.put that fails with an error that is no device I/O error
\* ends the transfer at that attempt, whichever it is: the call returns the
\* chunk error, no wait follows the attempt and the request is not issued again.
C6_OtherErrorAborts ==
    lastReq = "dfu.put chunk" /\ ~lastRsp.ok /\ ErrCardIo \notin lastRsp.err =>
        /\ Returned
        /\ loadErr = Errorf("failed to send chunk at offset", offset, maxRetries)
        /\ backoffs = attempts - 1
        /\ ioFails = attempts - 1

C6_Witness ==
    /\ lastReq = "dfu.put chunk"
    /\ lastRsp = ErrRsp({TxtTimeout})
    /\ attempts = 2
    /\ Returned

StartsAfterSettled ==
    started' # started =>
        /\ started' = started + 1
        /\ acked = started
        /\ settled = started
        /\ pc \in {"binput", "dfuput"}

\* C7: chunk dfu.put requests go out in strictly increasing offset order, and
\* the first request of a chunk is issued only when every earlier chunk has
\* been acknowledged and its pending sub-poll, if it had one, has ended.
C7_ChunksInOrder ==
    /\ [](\A k \in 1..(Len(chunks) - 1) : chunks[k][1] < chunks[k+1][1])
    /\ [][StartsAfterSettled]_vars

C7_Witness ==
    /\ started = 2
    /\ settled = 1
    /\ lastReq = "card.binary.put"
    /\ chunks = <<(<<0, 1>>)>>

CountersMoveOnSuccess ==
    SessionExists =>
        /\ offset' >= offset
        /\ (offset' # offset \/ lenRemaining' # lenRemaining) =>
              /\ pc = "dfuput"
              /\ lastReq' = "dfu.put chunk"
              /\ lastRsp'.ok
              /\ offset' = offset + thisLen

\* C8: in every state of a transfer offset + remaining = totalLength and
\* 0 <= offset <= totalLength; offset never decreases, and the two counters
\* change only in the step in which a chunk's dfu.put succeeds.
C8_CountersInvariant ==
    /\ [](SessionExists =>
            /\ offset + lenRemaining = totalLen
            /\ 0 <= offset
            /\ offset <= totalLen)
    /\ [][CountersMoveOnSuccess]_vars

C8_Witness ==
    /\ SessionExists
    /\ offset = 2
    /\ lenRemaining = 1
    /\ attempts = 2
    /\ pc = "retrysleep"

\* the length a card.binary response reports, as the number it carries
ReportsLength(v, n) ==
    \/ v.t \in {"float64", "int"} /\ v.n = n
    \/ v.t = "string" /\ v.s = ToString(n)

\* C9: in binary mode a chunk's dfu.put is issued only after a card.binary
\* verification response that reports the chunk's original length; a response
\* that reports another length, or none, makes the call return the
\* verification error with no dfu.put issued for the chunk.
C9_VerifiedBeforePut ==
    /\ binaryMax > 0 /\ attempts > 0 => ReportsLength(verified, thisLen)
    /\ binaryMax > 0 /\ pc \in {"dfuput", "retrysleep"} => ReportsLength(verified, thisLen)
    /\ lastReq = "card.binary verify" /\ lastRsp.ok /\ ~ReportsLength(lastRsp.val, thisLen) =>
          /\ Returned
          /\ loadErr.ret = "error"
          /\ loadErr.msg = "notecard payload verification failed"
          /\ loadErr.a = thisLen
          /\ attempts = 0
          /\ Len(chunks) = chunkCount - 1

C9_Witness ==
    /\ lastReq = "card.binary verify"
    /\ lastRsp = OkRsp("absent", [t |-> "float64", n |-> 1, s |-> ""])
    /\ thisLen = 2
    /\ Returned
    /\ attempts = 0

\* C10: in binary mode every dfu.put attempt of a chunk comes with its own
\* card.binary.put: the two request counts of a chunk are equal.
C10_WholeChunkResent ==
    binaryMax > 0 /\ attempts > 0 => binPuts = attempts


\* the image bytes [off, off + n)
ImageBytes(off, n) == [k \in 1..n |-> bin[off + k]]

\* C11: every chunk dfu.put issued carries the chunk's offset, its length in
\* bytes and the digest of its bytes as status, and one payload form: in
\* binary mode binary:true and no payload field, otherwise a payload field
\* holding the image bytes [offset, offset+length) and no binary field.
C11_ChunkRequestShape ==
    attempts > 0 =>
        /\ sent.req = "dfu.put"
        /\ sent.offset = CurrentChunk[1]
        /\ sent.length = CurrentChunk[2]
        /\ sent.length >= 1
        /\ sent.offset + sent.length <= totalLen
        /\ sent.status = <<"md5", ImageBytes(sent.offset, sent.length)>>
        /\ IF binaryMax > 0
           THEN /\ DOMAIN sent = {"req", "offset", "length", "status", "binary"}
                /\ sent.binary = TRUE
           ELSE /\ DOMAIN sent = {"req", "offset", "length", "status", "payload"}
                /\ sent.payload = ImageBytes(sent.offset, sent.length)
                /\ Len(sent.payload) = sent.length

C11_Witness ==
    /\ attempts = 2
    /\ binaryMax = 0
    /\ sent.offset = 2
    /\ sent.payload = <<3>>


\* C12: after a chunk answer with pending:true, status answers pending:true,
\* pending:true, pending:false make a sub-poll of exactly 3 status requests
\* with a 750 ms wait after each pending:true answer and none before the
\* first request or after the last; the next chunk is not started before the
\* pending:false answer.
C12_SubPollThreeRequests ==
    /\ pc \in {"subpoll", "subsleep"} =>
          /\ started = acked
          /\ settled = acked - 1
          /\ loadErr = Running
    /\ lastReq = "dfu.put status" /\ lastRsp.ok /\ lastRsp.pending = "true" =>
          pc \in {"subsleep", "subpoll"}
    /\ subTrues = subPolls /\ pc = "subpoll" => subSleeps = subPolls
    /\ subTrues = subPolls /\ pc = "subsleep" => subSleeps = subPolls - 1
    /\ lastReq = "dfu.put status" /\ lastRsp.ok /\ lastRsp.pending = "false"
       /\ subTrues = 2 /\ subPolls = 3 =>
          /\ subSleeps = 2
          /\ pc = "loop"
          /\ settled = acked
          /\ started = acked
          /\ loadErr = Running

C12_Witness ==
    /\ lastReq = "dfu.put status"
    /\ lastRsp = OkRsp("false", Absent)
    /\ subTrues = 2
    /\ subPolls = 3
    /\ subSleeps = 2
    /\ pc = "loop"
    /\ lenRemaining > 0


\* C13: the status sub-poll that follows a chunk answered pending:true is
\* bounded: once it has begun, the call leaves it (continues with the next
\* chunk, completes or returns) however the device answers.
C13_SubPollEnds == (pc = "subpoll") ~> (pc \notin {"subpoll", "subsleep"})


\* C14: a failed status request of the sub-poll ends the sub-poll
\* successfully exactly when the error is a DFU-not-ready / DFU-in-progress
\* error (or its text holds "firmware update is in progress") and no bytes
\* remain; the same error with bytes remaining, and any other error, aborts
\* the transfer with an error.
C14_BusyOnlyAfterLastChunk ==
    lastReq = "dfu.put status" /\ ~lastRsp.ok =>
        IF /\ lastRsp.err \cap {ErrDFUNotReady, ErrDFUInProgress, TxtInProgress} # {}
           /\ lenRemaining = 0
        THEN /\ loadErr \in {Running, NilErr}
             /\ pc \notin {"subpoll", "subsleep"}
             /\ settled = acked
             /\ offset = totalLen
        ELSE /\ loadErr = Errorf("error checking DFU status", 0, 0)
             /\ Returned

C14_Witness ==
    /\ lastReq = "dfu.put status"
    /\ lastRsp = ErrRsp({ErrDFUInProgress})
    /\ lenRemaining = 0
    /\ Len(chunks) = 2
    /\ pc = "summary"
    /\ loadErr = Running


\* C15: on a connection-style error of the completion poll, completion is
\* declared exactly when the error is the third of an unbroken streak of
\* connection-style errors (a successful response or an error of another
\* kind restarts the streak) or when the loop index is greater than 30.
C15_ConsecutiveLosses ==
    /\ lastReq = "dfu.status"
    /\ ~lastRsp.ok
    /\ lastRsp.err \cap {ErrCardIo, TxtConnection, TxtTimeout} # {}
    /\ pc # "poll"
    => ((Returned /\ loadErr = NilErr) <=> (streak >= LostLimit \/ i > PollHalfway))


\* C16: dfu.status is requested only for Notecard firmware and only after the
\* last chunk has been acknowledged and settled, at most 60 times in one
\* call; for any other upload type no dfu.status request is issued.
C16_StatusOnlyAfterNotecardUpload ==
    /\ statusReqs <= PollIterations
    /\ lastReq = "dfu.status" => statusReqs > 0
    /\ statusReqs > 0 =>
          /\ filetype = UploadTypeNotecardFirmware
          /\ lenRemaining = 0
          /\ offset = totalLen
          /\ acked = Len(chunks)
          /\ settled = acked
          /\ \A k \in 1..Len(chunks) : chunks[k][1] + chunks[k][2] <= totalLen
    /\ filetype # UploadTypeNotecardFirmware =>
          statusReqs = 0 /\ lastReq # "dfu.status" /\ pc \notin {"poll", "pollsleep"}

C16_Witness ==
    /\ statusReqs = PollIterations
    /\ Len(chunks) = 2
    /\ acked = 2
    /\ Returned

\* a step taken after a dfu.status answer of pending:false issues no request
NoRequestAfterPendingFalse ==
    lastReq = "dfu.status" /\ lastRsp.ok /\ lastRsp.pending = "false" =>
        /\ lastReq' = lastReq
        /\ lastRsp' = lastRsp
        /\ statusReqs' = statusReqs
        /\ loadErr' = loadErr

\* C17: a successful dfu.status response with pending:false ends the
\* completion poll, the call returns nil and no request follows it; a
\* successful response with pending:true or with no boolean pending field
\* leaves the poll running until its 60 iterations are used up.
C17_PendingFalseEndsPoll ==
    /\ [](lastReq = "dfu.status" /\ lastRsp.ok =>
            IF lastRsp.pending = "false"
            THEN Returned /\ loadErr = NilErr
            ELSE \/ loadErr = Running /\ pc \in {"pollsleep", "poll"} /\ i < PollIterations
                 \/ loadErr = NilErr /\ Returned /\ i = PollIterations)
    /\ [][NoRequestAfterPendingFalse]_vars

C17_Witness ==
    /\ lastReq = "dfu.status"
    /\ lastRsp = OkRsp("false", Absent)
    /\ statusReqs = 2
    /\ i = 1
    /\ Returned
    /\ loadErr = NilErr

\* the names of the three setup requests
SetupRequests == {"card.binary probe", "card.time", "dfu.put initiate"}

\* no request of the chunk loop or of the completion poll has been issued
NothingTransferred ==
    /\ chunks = <<>>
    /\ started = 0
    /\ attempts = 0
    /\ binPuts = 0
    /\ statusReqs = 0

\* the sideload call, or the load call made directly, has ended in an error
FailedCall ==
    /\ Returned
    /\ IF lastReq = "dfu.put initiate"
       THEN loadErr.ret = "error" /\ (pc = "return" /\ caller = "Sideload" => sideloadErr.ret = "error")
       ELSE pc = "return" /\ sideloadErr.ret = "error" /\ loadErr = Running

\* C18 as stated: card.binary, card.time and the initiating dfu.put are each
\* issued at most once per call, and an error of any class from any of the
\* three makes the call return an error with no request of a later step.
C18_AnySetupErrorFatal ==
    /\ \A k \in DOMAIN setupReqs : setupReqs[k] <= 1
    /\ lastReq \in SetupRequests /\ ~lastRsp.ok =>
          FailedCall /\ NothingTransferred

\* C18 as the code has it: the three requests are each issued at most once
\* per call; an error of any class from card.time or from the initiating
\* dfu.put, and a device I/O error from the card.binary probe, makes the
\* call return an error with no request of a later step; a probe error of
\* any other class is not fatal, the call goes on to card.time with
\* binaryMax = 0.
C18_SetupErrors ==
    /\ \A k \in DOMAIN setupReqs : setupReqs[k] <= 1
    /\ lastReq = "card.binary probe" /\ ~lastRsp.ok =>
          IF ErrCardIo \in lastRsp.err
          THEN /\ FailedCall
               /\ NothingTransferred
               /\ setupReqs.time = 0
               /\ setupReqs.initiate = 0
          ELSE /\ pc = "time"
               /\ binaryMax = 0
               /\ sideloadErr = Running
    /\ lastReq = "card.time" /\ ~lastRsp.ok =>
          /\ FailedCall
          /\ NothingTransferred
          /\ setupReqs.initiate = 0
    /\ lastReq = "dfu.put initiate" /\ ~lastRsp.ok =>
          /\ FailedCall
          /\ NothingTransferred

C18_Witness ==
    /\ lastReq = "card.binary probe"
    /\ lastRsp = ErrRsp({TxtTimeout})
    /\ pc = "time"
    /\ binaryMax = 0
    /\ setupReqs = [probe |-> 1, time |-> 0, initiate |-> 0]

\* a probe answered without a max field leaves binaryMax at 0 and goes on
ProbeWithoutMax ==
    pc = "probe" /\ lastReq' = "card.binary probe" /\ lastRsp'.ok /\ lastRsp'.val = Absent =>
        /\ binaryMax' = 0
        /\ pc' = "time"
        /\ sideloadErr' = Running

\* binaryMax is written by the probe alone
BinaryMaxFixed == pc # "probe" => binaryMax' = binaryMax

\* C19: a card.binary probe that succeeds without a max field is no error:
\* the call goes on with binaryMax = 0, and with binaryMax = 0 no
\* card.binary.put, raw byte write or verification is ever issued and every
\* chunk's dfu.put carries its payload inline; a probe failing with a device
\* I/O error makes the call return an error before card.time or any dfu.put.
C19_ProbeWithoutMaxIsInline ==
    /\ [][ProbeWithoutMax]_vars
    /\ [][BinaryMaxFixed]_vars
    /\ [](binaryMax = 0 =>
            /\ binPuts = 0
            /\ verified = Absent
            /\ pc \notin {"binput", "binsend", "binverify"}
            /\ lastReq \notin {"card.binary.put", "SendBytes", "card.binary verify"}
            /\ attempts > 0 =>
                  /\ "payload" \in DOMAIN sent
                  /\ "binary" \notin DOMAIN sent
                  /\ sent.payload = ImageBytes(CurrentChunk[1], CurrentChunk[2]))
    /\ [](lastReq = "card.binary probe" /\ ~lastRsp.ok /\ ErrCardIo \in lastRsp.err =>
            /\ pc = "return"
            /\ sideloadErr = Errorf("card I/O error during binary check", 0, 0)
            /\ setupReqs.time = 0
            /\ setupReqs.initiate = 0
            /\ chunks = <<>>
            /\ attempts = 0)

C19_Witness ==
    /\ lastReq = "card.binary probe"
    /\ lastRsp.ok
    /\ lastRsp.val = Absent
    /\ binaryMax = 0
    /\ pc = "time"
    /\ sideloadErr = Running

\* the whole number a response field carries as float64, int or decimal
\* text; 0 when it carries none
CarriedLength(v) ==
    IF v.t \in {"float64", "int"} THEN v.n
    ELSE IF v.t = "string" /\ \E n \in NumVals : ToString(n) = v.s
    THEN CHOOSE n \in NumVals : ToString(n) = v.s
    ELSE 0

\* the answer to the initiating dfu.put sets the chunk size
NegotiatesChunkSize ==
    lastReq' = "dfu.put initiate" /\ lastRsp'.ok =>
        chunkLen' = IF CarriedLength(lastRsp'.val) # 0
                    THEN CarriedLength(lastRsp'.val)
                    ELSE 1024

\* no step after the negotiation writes the chunk size
ChunkSizeFixed == SessionExists => chunkLen' = chunkLen

\* C20: the chunk size is the length value of the initiate-transfer
\* response, or 1024 when the response carries no number other than zero; no
\* later step changes it; every chunk has exactly chunkLen bytes except the
\* last chunk of the image, which has at least one byte and at most chunkLen.
C20_ChunkSizeFixed ==
    /\ [][NegotiatesChunkSize]_vars
    /\ [][ChunkSizeFixed]_vars
    /\ [](\A k \in 1..Len(chunks) :
            \/ chunks[k][2] = chunkLen
            \/ /\ k = Len(chunks)
               /\ chunks[k][2] >= 1
               /\ chunks[k][2] < chunkLen
               /\ chunks[k][1] + chunks[k][2] = totalLen)

C20_Witness ==
    /\ chunkLen = 2
    /\ chunks = << <<0, 2>>, <<2, 1>> >>
    /\ acked = 2
    /\ settled = 2
    /\ lastReq = "dfu.put status"
    /\ lastRsp = OkRsp("false", Absent)

\* C21: in one call of SideloadFirmware... with a non-nil connection the
\* tunables RequestSegmentMaxLen and RequestSegmentDelayMs are 1024 and 5
\* from the override until the call exits, and before the override and after
\* every exit they hold the values they had when the call began.
C21_TunablesRestored ==
    caller = "Sideload" /\ ~ctxNil =>
        IF pc \in {"entry", "return"}
        THEN <<RequestSegmentMaxLen, RequestSegmentDelayMs>> = entryTunables
        ELSE RequestSegmentMaxLen = 1024 /\ RequestSegmentDelayMs = 5

C21_Witness ==
    /\ caller = "Sideload"
    /\ pc = "return"
    /\ sideloadErr = Errorf("failed to load firmware", 0, 0)
    /\ acked = 1
    /\ loadErr.msg = "error checking DFU status"
    /\ entryTunables = <<250, 250>>
    /\ RequestSegmentMaxLen = 250
    /\ RequestSegmentDelayMs = 250

\* C23: once the sideload has returned nil the update tool returns a text
\* (non-error) result in every case: after five failed reconnections, after
\* a failed card.version verification, and after a response with no version
\* string; an error result comes only from a failure before or during the
\* sideload.
C23_SuccessAfterSideload ==
    /\ hretry <= Reconnects
    /\ reopens <= Reconnects
    /\ sideloadOk => toolResult # "error"
    /\ sideloadOk /\ tpc = "done" => toolResult = "text"
    /\ sideloadOk /\ hretry = Reconnects => tpc = "done" /\ reconnectErr /\ reopens = Reconnects
    /\ handler = "update" /\ toolResult = "error" => ~sideloadOk /\ reopens = 0 /\ tpc = "done"

C23_Witness ==
    /\ sideloadOk
    /\ tpc = "done"
    /\ hretry = Reconnects
    /\ reopens = Reconnects
    /\ reconnectErr
    /\ toolResult = "text"

\* C30: when the initialize tool connected with an explicit port or baud
\* rate, every notecard.Open of the reconnection loop of the update tool is
\* given that port and that baud rate, not the default ones.
C30_ReconnectsAsInitialized ==
    reopens > 0 /\ connectedWith # <<>> =>
        /\ connectedWith[1] = UserPort => openedWith[1] = UserPort
        /\ connectedWith[2] = UserBaud => openedWith[2] = UserBaud

\* the chunks of the 3500-byte example, given the length of the fourth
ExampleChunks(last) == << <<0, 1024>>, <<1024, 1024>>, <<2048, 1024>>, <<3072, last>> >>

\* the example is sent in exactly four chunk dfu.put requests, one attempt
\* each, inline, at the offsets and with the lengths of ExampleChunks(last)
ExampleSentAs(last) ==
    /\ chunkLen \in {0, 1024}
    /\ attempts <= 1
    /\ started = Len(chunks)
    /\ Len(chunks) <= 4
    /\ \A k \in 1..Len(chunks) : chunks[k] = ExampleChunks(last)[k]
    /\ attempts > 0 =>
          /\ sent.offset = CurrentChunk[1]
          /\ sent.length = CurrentChunk[2]
          /\ Len(sent.payload) = CurrentChunk[2]
          /\ "binary" \notin DOMAIN sent
    /\ pc \in {"summary", "poll", "pollsleep", "return"} =>
          /\ Len(chunks) = 4
          /\ acked = 4
          /\ offset = 3500
          /\ lenRemaining = 0
    /\ lastReq \notin {"card.binary.put", "SendBytes", "card.binary verify"}

\* C24 as stated: a 3500-byte image with chunk size 1024 in non-binary mode
\* and no failing request is sent in exactly 4 chunk dfu.put requests with
\* offsets 0, 1024, 2048, 3072 and lengths 1024, 1024, 1024, 332.
C24_Example332 == ExampleSentAs(332)

\* C24 as the code has it: the same image is sent in exactly 4 chunk dfu.put
\* requests with offsets 0, 1024, 2048, 3072 and lengths 1024, 1024, 1024,
\* 428 (3500 - 3072 = 428).
C24_Example428 == ExampleSentAs(428)

C24_Witness ==
    /\ pc = "return"
    /\ loadErr = NilErr
    /\ chunks = << <<0, 1024>>, <<1024, 1024>>, <<2048, 1024>>, <<3072, 428>> >>
    /\ sent.offset = 3072
    /\ sent.length = 428
    /\ acked = 4

\* the step that computes the elapsed seconds gives the difference of the
\* clock readings raised to 1 when it is less than 1
SummaryClampsElapsed ==
    pc = "summary" /\ pc' # "summary" =>
        elapsedSecs' = IF nowSecs - beganSecs < 1 THEN 1 ELSE nowSecs - beganSecs

\* the step that computes the elapsed seconds gives the difference of the
\* clock readings plus one
SummaryAddsOne ==
    pc = "summary" /\ pc' # "summary" =>
        /\ elapsedSecs' = nowSecs - beganSecs + 1
        /\ elapsedSecs' >= 1
        /\ elapsedSecs' > nowSecs - beganSecs

\* C25 as stated: the elapsed seconds of the throughput report are
\* now - beganAt, raised to 1 only when that difference is less than 1, and
\* so equal the true difference whenever the transfer took a second or more.
C25_ElapsedIsDifference == [][SummaryClampsElapsed]_vars

\* C25 as the code has it: the elapsed seconds of the throughput report are
\* now - beganAt + 1 in every case; with a clock that does not go backwards
\* the value is at least 1 and is one more than the true difference.
C25_ElapsedIsDifferencePlusOne ==
    /\ [][SummaryAddsOne]_vars
    /\ [](beganSecs <= nowSecs)
    /\ [](elapsedSecs # 0 => elapsedSecs >= 1 /\ pc \notin {"entry", "loop", "dfuput", "summary"})

C25_Witness ==
    /\ pc = "return"
    /\ loadErr = NilErr
    /\ acked = 1
    /\ beganSecs = 1
    /\ nowSecs = 3
    /\ elapsedSecs = 3


\* the number of positions of a sequence that hold a byte
CountOf(q, b) == Cardinality({k \in 1..Len(q) : q[k] = b})

\* C26: the bytes written for a chunk in binary mode are the encoded payload
\* followed by one delimiter byte: the delimiter (0x0A) occurs in them exactly
\* once, as the last byte, and the declared cobs length is the written length
\* minus one.
C26_FrameEndsWithOnlyDelimiter ==
    fpc = "written" =>
        /\ Len(payloadEncoded) >= 2
        /\ payloadEncoded[Len(payloadEncoded)] = Delimiter
        /\ CountOf(payloadEncoded, Delimiter) = 1
        /\ cobs = Len(payloadEncoded) - 1

C26_Witness ==
    /\ fpc = "written"
    /\ Len(chunkPayload) = 300
    /\ CountOf(chunkPayload, Delimiter) > 0
    /\ cobs = Len(chunkPayload) + 2

\* C27: in binary mode, whatever binaryMax > 0 the probe reported and
\* whatever chunk size the initiate response negotiated, the payload of a
\* chunk sent through the binary sub-channel has at most binaryMax bytes.
C27_BinaryPayloadWithinMax ==
    UsesBinary(binaryMax) /\ pc \in {"binsend", "binverify"} => thisLen <= binaryMax

\* C28: for every length the initiate response can carry, zero and negative
\* numbers included, the chunk loop works with a chunk size of at least 1:
\* every chunk has 1 <= thisLen <= remaining, its slice lies inside the image
\* and the loop ends with offset = totalLen when no request fails.
C28_ChunkSizeAtLeastOne ==
    SessionExists =>
        /\ chunkLen >= 1
        /\ loadErr # Panic
        /\ \A k \in 1..Len(chunks) :
              /\ chunks[k][2] >= 1
              /\ chunks[k][1] + chunks[k][2] <= totalLen
        /\ pc = "summary" => offset = totalLen

\* C29: for two calls of SideloadFirmware... that overlap in one process,
\* under every interleaving of their save, override and restore steps, once
\* both calls have returned RequestSegmentMaxLen and RequestSegmentDelayMs
\* have the values they had before either call began.
C29_BothReturnedRestored ==
    (\A c \in Callers : calls[c].at = "returned") => tunables = entryTunables
====
